---- MODULE Spec2Model ----
(***************************************************************************)
(* Armel: a linear (bump-pointer) arena.  The arena is the C struct Armel  *)
(* {base, cursor, end, alignment, mask, flags}; every pointer is a machine *)
(* word of WordBits bits and all pointer arithmetic is modulo 2^WordBits.  *)
(* The repository holds two definitions of arl_alloc and arl_reset: the    *)
(* static inline ones of includes/Armel/armel.h and the external ones of   *)
(* src/armel.c.  Which of them a call resolves to is a property of the     *)
(* build, as is ARL_NO_CHECKS; both are fixed when the program starts.     *)
(***************************************************************************)
EXTENDS Integers, FiniteSets, Sequences, TLC

\* ---- bounds of the model -------------------------------------------------
WordBits == 6
PageBits == 3
MaxCap == 13
MaxPages == 1
MaxBuf == 11

Word == 2 ^ WordBits
PageSize == 2 ^ PageBits

\* ---- program constants ---------------------------------------------------
ARL_ALIGN == 8
ARL_NOFLAG == 0
ARL_SOFTFAIL == 1
ARL_ZEROS == 2
NULL == 0

NoRet == 0 - 1
NoMark == [off |-> NoRet, cur |-> NoRet, nxt |-> NoRet, again |-> FALSE]
NoAlloc == <<NoRet, NoRet>>
NoFirst == <<NoRet, NoRet, FALSE>>
NoSize == [t |-> 0, n |-> 0, a |-> 0, total |-> NoRet]
Spoiled == <<NoRet - 1, NoRet - 1, FALSE>>
Probes ==
    {"none", "mark", "first", "held", "byte", "scenario", "fit", "size",
     "align"}
NotMade == [ctor |-> "none", capacity |-> 0, alignment |-> 0, flags |-> 0,
            buffer |-> 0, owned |-> FALSE]

\* ---- inputs --------------------------------------------------------------
Capacities == {0, MaxCap, Word - 3}
\* the capacity of the two-allocation scenario, asked for by the runs that
\* follow it
ScenarioCapacities == {32}
Alignments == {0, 3, 4, 8}
FlagSet == 0 .. 3
Buffers == {NULL, PageSize + 1}
BufferSizes == {MaxBuf}
\* the bytes a run can observe: one in the first block of an owned region, and
\* the first byte of the first block of a borrowed buffer for each alignment
WatchAddrs == {PageSize + 1, PageSize + 4, PageSize + 8}
AllocSizes == {0, 4, Word - 4}
\* the arguments of arl_size: sizeof(T), the element count N and ALIGN
ElementSizes == {4, 12}
Counts == {3, Word \div 8}
SizeAlignments == {4, 8}
\* the sizes a caller rounds with arl_align_up: aligned and unaligned ones,
\* and the last ones of the machine word
AlignSizes == {0, 1, MaxCap, 16, Word - 8, Word - 3, Word - 1}

\* ---- machine words -------------------------------------------------------
Wrap(x) == (x + Word) % Word

RECURSIVE BitAnd(_, _, _)
BitAnd(x, y, n) ==
    IF n = 0 THEN 0
    ELSE (x % 2) * (y % 2) + 2 * BitAnd(x \div 2, y \div 2, n - 1)

And(x, y) == BitAnd(x, y, WordBits)
Not(x) == Word - 1 - x

HasFlag(f, bit) == And(f, bit) # 0

Range(p, n) == {Wrap(p + i) : i \in 0 .. (n - 1)}

\* size_t arl_align_up(size_t size, size_t align)
arl_align_up(size, align) ==
    LET a == Wrap(align - 1) IN And(Wrap(size + a), Not(a))

VARIABLES
    noChecks,   \* build: ARL_NO_CHECKS is defined
    inlined,    \* build: arl_alloc/arl_reset resolve to armel.h (else armel.c)
    state,      \* "uninit", "ready", "destroyed", "aborted", "crashed"
    base, cursor, end, alignment, mask, flags,   \* the Armel struct
    made,       \* how the arena was constructed (constructor and arguments)
    sys,        \* PageSource: mapped regions, number of acquires and releases
    mem,        \* the observed addresses whose byte is not zero
    op, arg, ret,   \* the last call, its argument and what it returned
    probe,      \* which of the histories below this run records
    mark,       \* the checkpoint taken with arl_offset, while only
                \* allocations and rewinds to it have followed it: the
                \* offset, the cursor it stands for, the address of the first
                \* allocation made after it, and whether an allocation has
                \* followed a rewind to it, which ends the history
    first,      \* the first allocation made on the arena, when nothing but
                \* allocations and resets came before it: its address, its
                \* size, and whether a reset and then an allocation of that
                \* size have followed
    held,       \* one allocation, picked when it was made, that no reset or
                \* rewind has reclaimed since
    wild,       \* a rewind beyond the region has been let through
    watch,      \* the addresses whose contents this run observes
    guard,      \* the offset of a checkpoint taken while the observed byte
                \* held the caller's data below it, while only allocations
                \* and rewinds to that checkpoint have followed
    sized,      \* the arl_size computation the run has made for its arena: the
                \* element size, the element count, the alignment and the
                \* total the macro gave
    step        \* how far the run has followed the two-allocation scenario,
                \* or the filling of an arena sized with arl_size: 1 after
                \* the construction, one more after each of its
                \* allocations, 0 when the run is not in it

arena == <<base, cursor, end, alignment, mask, flags>>
build == <<noChecks, inlined>>
ghost == <<probe, mark, first, held, wild, watch, guard, sized, step>>
vars == <<noChecks, inlined, state, base, cursor, end, alignment, mask, flags,
          made, sys, mem, op, arg, ret, probe, mark, first, held, wild,
          watch, guard, sized, step>>

Init ==
    /\ noChecks \in BOOLEAN
    /\ inlined \in BOOLEAN
    /\ state = "uninit"
    /\ base = NULL /\ cursor = NULL /\ end = NULL
    /\ alignment = 0 /\ mask = 0 /\ flags = 0
    /\ made = NotMade
    /\ sys = [mapped |-> {}, acquires |-> 0, releases |-> 0]
    /\ mem = {}
    /\ op = "none" /\ arg = NoRet /\ ret = NoRet
    /\ probe \in Probes
    /\ mark = NoMark
    /\ first = NoFirst
    /\ held = NoAlloc
    /\ wild = FALSE
    /\ watch \in IF probe = "byte" THEN {{a} : a \in WatchAddrs} ELSE {{}}
    /\ guard = NoRet
    /\ sized = NoSize
    /\ step = 0

\* the histories are written by no operation of the arena and read by none:
\* a run records the one its probe names and leaves the others alone
Track(p, new, old) == IF probe = p THEN new ELSE old

\* the part of a set of addresses that the run observes
Seen(S) == S \cap watch

\* abort(): the process terminates, nothing else changes
Abort(name, a) ==
    /\ state' = "aborted"
    /\ op' = name /\ arg' = a /\ ret' = NoRet
    /\ UNCHANGED <<build, arena, made, sys, mem, ghost>>

\* the addresses the program may legally write: mapped pages or the buffer
Valid ==
    UNION {Range(r[1], r[2]) : r \in sys.mapped}
        \cup (IF made.ctor = "arl_new_local" THEN Range(made.buffer, made.capacity) ELSE {})

\* ---- PageSource (src/armel_sys.c) ----------------------------------------
\* the page-aligned, non-null addresses at which mmap can place size bytes;
\* no mapping reaches into the last page of the address space
arl_sys_alloc(size) ==
    IF size = 0 THEN {}
    ELSE {p \in {PageSize * i : i \in 1 .. MaxPages} :
            p + size + PageSize < Word}

\* a munmap that accepts any region
arl_sys_free_any(ptr, size) == TRUE

\* munmap succeeds on a region that is mapped, and fails on anything else
arl_sys_free(ptr, size) == <<ptr, size>> \in sys.mapped

\* ---- constructors --------------------------------------------------------
Construct(name, size, a, f, b, e, m, buffer, owned) ==
    /\ state' = "ready"
    /\ base' = b /\ cursor' = b /\ end' = e
    /\ alignment' = a /\ mask' = m /\ flags' = f
    /\ made' = [ctor |-> name, capacity |-> size, alignment |-> a, flags |-> f,
                buffer |-> buffer, owned |-> owned]
    /\ op' = name /\ arg' = size /\ ret' = NoRet
    /\ step' = IF \/ /\ probe = "scenario" /\ size \in ScenarioCapacities
                       /\ a = ARL_ALIGN /\ f = ARL_NOFLAG
                    \/ /\ sized # NoSize /\ size = sized.total /\ a = sized.a
               THEN 1 ELSE 0
    /\ UNCHANGED <<build, probe, sized, mark, first, held, wild, watch, guard>>

\* #define arl_size(T, N, ALIGN) (arl_align_up(sizeof(T), (ALIGN)) * (N))
arl_size(T, N, ALIGN) == Wrap(arl_align_up(T, ALIGN) * N)

\* size_t size = arl_size(T, N, ALIGN); computed by the caller before it
\* makes the arena
compute_size(t, n, a) ==
    /\ state = "uninit"
    /\ sized = NoSize
    /\ sized' = [t |-> t, n |-> n, a |-> a, total |-> arl_size(t, n, a)]
    /\ op' = "arl_size" /\ arg' = n /\ ret' = arl_size(t, n, a)
    /\ UNCHANGED <<build, state, arena, made, sys, mem, probe, mark, first,
                   held, wild, watch, guard, step>>

\* size_t padded = arl_align_up(size, align); computed by the caller before
\* it makes an arena of that many bytes
align_up(size, a) ==
    /\ state = "uninit"
    /\ sized = NoSize
    /\ sized' = [t |-> size, n |-> 1, a |-> a, total |-> arl_align_up(size, a)]
    /\ op' = "arl_align_up" /\ arg' = size /\ ret' = arl_align_up(size, a)
    /\ UNCHANGED <<build, state, arena, made, sys, mem, probe, mark, first,
                   held, wild, watch, guard, step>>

\* the capacities a run asks an owned constructor for
Sizes ==
    IF probe = "scenario" THEN ScenarioCapacities
    ELSE IF sized # NoSize THEN {sized.total}
    ELSE Capacities

\* the mask a constructor of src/armel.c stores for an alignment
custom_mask(a) == Not(Wrap(a - 1))

\* the alignments the explicit constructor of src/armel.c accepts
custom_alignment_ok(a) == a # 0

\* void arl_new (Armel*, size_t size, size_t alignment, uint8_t flags) of
\* src/armel.c: the owned constructor with an explicit alignment, declared
\* as arl_new_custom in armel.h
arl_new_custom(size, a, f) ==
    /\ state = "uninit"
    /\ size \in Sizes
    /\ IF ~custom_alignment_ok(a) THEN Abort("arl_new_custom", size)
       ELSE LET padded_size == arl_align_up(size, a) IN
            \/ Abort("arl_new_custom", size)      \* mmap failed
            \/ \E ptr \in arl_sys_alloc(padded_size) :
                /\ Construct("arl_new_custom", size, a, f, ptr,
                             Wrap(ptr + padded_size), custom_mask(a), NULL, TRUE)
                /\ sys' = [mapped |-> sys.mapped \cup {<<ptr, padded_size>>},
                           acquires |-> sys.acquires + 1,
                           releases |-> sys.releases]
                /\ mem' = IF HasFlag(f, ARL_ZEROS)
                          THEN mem \ Range(ptr, padded_size) ELSE mem

\* static inline void arl_new (Armel*, size_t size) of armel.h: the owned
\* constructor with the default alignment and no flags
arl_new(size) ==
    /\ state = "uninit"
    /\ size \in Sizes
    /\ LET padded_size == arl_align_up(size, ARL_ALIGN) IN
        \/ Abort("arl_new", size)                 \* mmap failed
        \/ \E ptr \in arl_sys_alloc(padded_size) :
            /\ Construct("arl_new", size, ARL_ALIGN, ARL_NOFLAG, ptr,
                         Wrap(ptr + padded_size), ARL_ALIGN - 1, NULL, TRUE)
            /\ sys' = [mapped |-> sys.mapped \cup {<<ptr, padded_size>>},
                       acquires |-> sys.acquires + 1,
                       releases |-> sys.releases]
            /\ mem' = mem

\* static inline void arl_new_local (Armel*, void *buffer, size_t size,
\* size_t alignment, uint8_t flags): the borrowed constructor.  The buffer
\* holds whatever the caller left in it, here non-zero bytes.
arl_new_local(buffer, size, a, f) ==
    /\ state = "uninit"
    /\ buffer + size < Word
    /\ IF buffer = NULL THEN Abort("arl_new_local", size)
       ELSE IF a = 0 \/ And(a, Wrap(a - 1)) # 0 THEN Abort("arl_new_local", size)
       ELSE /\ Construct("arl_new_local", size, a, f, buffer,
                         Wrap(buffer + size), Wrap(a - 1), buffer, FALSE)
            /\ mem' = Seen(Range(buffer, size))
            /\ UNCHANGED sys

\* a destroy that forgets the cursor and the end
clear_base_only == base' = NULL /\ UNCHANGED <<cursor, end>>

\* armel->base = NULL; armel->cursor = NULL; armel->end = NULL;
clear_pointers == base' = NULL /\ cursor' = NULL /\ end' = NULL

\* a destroy that releases the region and leaves the descriptor as it was
arl_free_keeps_arena ==
    /\ state \in {"ready", "destroyed"}
    /\ made.owned
    /\ LET size == Wrap(end - base) IN
        IF ~arl_sys_free(base, size) THEN Abort("arl_free", NoRet)
        ELSE /\ sys' = [mapped |-> sys.mapped \ {<<base, size>>},
                        acquires |-> sys.acquires,
                        releases |-> sys.releases + 1]
             /\ state' = "destroyed"
             /\ op' = "arl_free" /\ arg' = NoRet /\ ret' = NoRet
             /\ mark' = NoMark
             /\ held' = NoAlloc
             /\ guard' = NoRet
             /\ step' = 0
             /\ UNCHANGED <<build, arena, made, mem, probe, sized, watch, first,
                            wild>>

\* void arl_free (Armel *armel) of src/armel.c, on an owned arena
arl_free ==
    /\ state \in {"ready", "destroyed"}
    /\ made.owned
    /\ LET size == Wrap(end - base) IN
        IF ~arl_sys_free(base, size) THEN Abort("arl_free", NoRet)
        ELSE /\ sys' = [mapped |-> sys.mapped \ {<<base, size>>},
                        acquires |-> sys.acquires,
                        releases |-> sys.releases + 1]
             /\ clear_pointers
             /\ flags' = 0 /\ alignment' = 0
             /\ state' = "destroyed"
             /\ op' = "arl_free" /\ arg' = NoRet /\ ret' = NoRet
             /\ mark' = NoMark
             /\ held' = NoAlloc
             /\ guard' = NoRet
             /\ step' = 0
             /\ UNCHANGED <<build, mask, made, mem, probe, sized, watch, first, wild>>

\* ---- allocation ----------------------------------------------------------
\* armel.h: start = (cursor + armel->mask) & ~armel->mask
start_inline(c) == And(Wrap(c + mask), Not(mask))

\* src/armel.c: start = cursor % alignment == 0 ? cursor
\*                      : (cursor + alignment - 1) & armel->mask
start_extern(c) ==
    IF c % alignment = 0 THEN c ELSE And(Wrap(c + alignment - 1), mask)

\* the definition of arl_alloc the build links
alloc_start(c) == IF inlined THEN start_inline(c) ELSE start_extern(c)

\* the test that sends an allocation to the out-of-memory branch
out_of_memory(stop) == stop > end

\* the process dies on a wild memset
Crash(name, a) ==
    /\ state' = "crashed"
    /\ op' = name /\ arg' = a /\ ret' = NoRet
    /\ UNCHANGED <<build, arena, made, sys, mem, ghost>>

\* a soft failure that turns ARL_SOFTFAIL off, so that the next one aborts
ReturnNullOnce(name, a) ==
    /\ op' = name /\ arg' = a /\ ret' = NULL
    /\ flags' = And(flags, Not(ARL_SOFTFAIL))
    /\ UNCHANGED <<build, state, base, cursor, end, alignment, mask, made, sys,
                   mem, ghost>>

\* return NULL; the arena is left as it was
ReturnNull(name, a) ==
    /\ op' = name /\ arg' = a /\ ret' = NULL
    /\ UNCHANGED <<build, state, arena, made, sys, mem, ghost>>

\* a failure path that forgets ARL_SOFTFAIL
FailHard(name, a) == Abort(name, a)

\* if (flags & ARL_SOFTFAIL) return NULL; otherwise abort
Fail(name, a) ==
    IF HasFlag(flags, ARL_SOFTFAIL) THEN ReturnNull(name, a) ELSE Abort(name, a)

\* a zero-fill that forgets the arena's ARL_ZEROS flag
zero_fill_on_request(zeroed, start) == zeroed /\ start # NULL

\* whether the block at start is cleared: if (armel->flags & ARL_ZEROS) in
\* arl_alloc, if (ptr) in arl_alloc_zeroed
zero_fill(zeroed, start) ==
    HasFlag(flags, ARL_ZEROS) \/ (zeroed /\ start # NULL)

\* the allocations a run counts after the construction: the two 4-byte
\* blocks of the scenario, or the N elements of sizeof(T) bytes an arena of
\* arl_size(T, N, ALIGN) bytes was made for and one more
PlanSize == IF sized # NoSize THEN sized.t ELSE 4
StepLimit == IF sized # NoSize THEN sized.n + 1 ELSE 2

\* the body shared by arl_alloc (both definitions) and arl_alloc_zeroed,
\* which calls arl_alloc and then clears the block when it is not NULL
Alloc(name, size, start, zeroed) ==
    /\ state \in {"ready", "destroyed"}
    /\ IF base = NULL THEN Fail(name, size)
       ELSE LET stop == Wrap(start + size)
                zero == zero_fill(zeroed, start)
                block == Range(start, size)
            IN  IF out_of_memory(stop) THEN Fail(name, size)
                ELSE \/ /\ cursor' = stop
                        /\ ret' = start
                        /\ op' = name /\ arg' = size
                        /\ mem' = IF zero THEN mem \ block ELSE mem
                        /\ first' = Track("first",
                                IF first = NoFirst THEN <<start, size, FALSE>>
                                ELSE IF first # Spoiled /\ op = "arl_reset" /\ size = first[2]
                                     THEN <<first[1], first[2], TRUE>>
                                     ELSE first,
                                first)
                        /\ \E keep \in BOOLEAN :
                            held' = IF probe = "held" /\ held = NoAlloc /\ keep /\ size > 0
                                    THEN <<start, size>> ELSE held
                        /\ mark' = IF mark = NoMark \/ mark.again THEN NoMark
                                   ELSE IF mark.nxt = NoRet
                                   THEN [mark EXCEPT !.nxt = start]
                                   ELSE IF op = "arl_rewind_to"
                                   THEN [mark EXCEPT !.again = TRUE]
                                   ELSE mark
                        /\ step' = IF step \in 1 .. StepLimit /\ size = PlanSize
                                   THEN step + 1 ELSE 0
                        /\ UNCHANGED <<build, state, base, end, alignment, mask,
                                       flags, made, sys, probe, sized, watch, wild, guard>>
                     \/ /\ zero /\ ~(block \subseteq Valid)
                        /\ Crash(name, size)

\* static inline void* arl_alloc (Armel *armel, size_t size) of armel.h
arl_alloc_inline(size) ==
    /\ inlined
    /\ Alloc("arl_alloc", size, start_inline(cursor), FALSE)

\* void* arl_alloc (Armel *armel, size_t size) of src/armel.c
arl_alloc_extern(size) ==
    /\ ~inlined
    /\ Alloc("arl_alloc", size, start_extern(cursor), FALSE)

\* static inline void* arl_alloc_zeroed (Armel *armel, size_t size)
arl_alloc_zeroed(size) ==
    Alloc("arl_alloc_zeroed", size, alloc_start(cursor), TRUE)

\* ---- checkpoint and bulk deallocation ------------------------------------
\* a reset that leaves the cursor where it is
reset_cursor_stays == cursor

\* armel->cursor = armel->base;
reset_cursor == base

\* static inline void arl_reset (Armel *armel) of armel.h
arl_reset_inline ==
    /\ inlined
    /\ state \in {"ready", "destroyed"}
    /\ cursor' = reset_cursor
    /\ op' = "arl_reset" /\ arg' = NoRet /\ ret' = NoRet
    /\ mark' = NoMark
    /\ held' = NoAlloc
    /\ guard' = NoRet
    /\ step' = 0
    /\ UNCHANGED <<build, state, base, end, alignment, mask, flags, made, sys,
                   mem, probe, sized, watch, first, wild>>

\* void arl_reset (Armel *armel) of src/armel.c
arl_reset_extern ==
    /\ ~inlined
    /\ state \in {"ready", "destroyed"}
    /\ mem' = IF HasFlag(flags, ARL_ZEROS)
              THEN mem \ Range(base, Wrap(end - base)) ELSE mem
    /\ cursor' = reset_cursor
    /\ op' = "arl_reset" /\ arg' = NoRet /\ ret' = NoRet
    /\ mark' = NoMark
    /\ held' = NoAlloc
    /\ guard' = NoRet
    /\ step' = 0
    /\ UNCHANGED <<build, state, base, end, alignment, mask, flags, made, sys,
                   probe, sized, watch, first, wild>>

\* static inline uintptr_t arl_offset (Armel *armel); the caller keeps the
\* value as its checkpoint
arl_offset ==
    /\ state \in {"ready", "destroyed"}
    /\ ret' = Wrap(cursor - base)
    /\ op' = "arl_offset" /\ arg' = NoRet
    /\ mark' = Track("mark", [off |-> Wrap(cursor - base), cur |-> cursor,
                              nxt |-> NoRet, again |-> FALSE], mark)
    /\ guard' = IF watch # {} /\ watch \subseteq mem
                    /\ \A a \in watch : base <= a /\ a < cursor
                 THEN Wrap(cursor - base) ELSE NoRet
    /\ UNCHANGED <<build, state, arena, made, sys, mem, probe, sized, watch, first,
                   held, wild, step>>

\* a check that is compiled out of every build
ARL_CHECK_never(cond) == TRUE

\* ARL_CHECK(cond, msg): aborts when cond fails, unless ARL_NO_CHECKS
ARL_CHECK(cond) == noChecks \/ cond

\* a rewind that leaves the cursor where it is
rewind_cursor_stays(offset) == cursor

\* armel->cursor = (uint8_t*)armel->base + offset;
rewind_cursor(offset) == Wrap(base + offset)

\* static inline void arl_rewind_to (Armel *armel, uintptr_t offset)
arl_rewind_to(offset) ==
    /\ state \in {"ready", "destroyed"}
    /\ LET limit == Wrap(end - base) IN
        IF ~ARL_CHECK(offset <= limit) THEN Abort("arl_rewind_to", offset)
        ELSE /\ cursor' = rewind_cursor(offset)
             /\ op' = "arl_rewind_to" /\ arg' = offset /\ ret' = NoRet
             /\ mark' = IF offset = mark.off /\ ~mark.again THEN mark ELSE NoMark
             /\ first' = Track("first", IF first = NoFirst THEN Spoiled ELSE first,
                                first)
             /\ held' = IF held # NoAlloc /\ held[1] + held[2] > Wrap(base + offset)
                      THEN NoAlloc ELSE held
             /\ wild' = (wild \/ offset > limit)
             /\ guard' = IF offset = guard THEN guard ELSE NoRet
             /\ step' = 0
             /\ UNCHANGED <<build, state, base, end, alignment, mask, flags,
                            made, sys, mem, probe, sized, watch>>

\* the offsets a caller rewinds to: its checkpoint, the start, the middle,
\* the end of the region and one byte past it
RewindOffsets ==
    {0, 4, Wrap(end - base), Wrap(end - base + 1)}
        \cup (IF mark.off # NoRet THEN {mark.off} ELSE {})

\* ---- diagnostics ---------------------------------------------------------
\* an accessor that stores the aligned cursor back into the arena
ReadAligning(name, value) ==
    /\ state \in {"ready", "destroyed"}
    /\ op' = name /\ arg' = NoRet /\ ret' = value
    /\ cursor' = arl_align_up(cursor, alignment)
    /\ UNCHANGED <<build, state, base, end, alignment, mask, flags, made, sys,
                   mem, ghost>>

Read(name, value) ==
    /\ state \in {"ready", "destroyed"}
    /\ op' = name /\ arg' = NoRet /\ ret' = value
    /\ UNCHANGED <<build, state, arena, made, sys, mem, ghost>>

\* a count of used bytes that forgets to subtract the base
used_bytes_from_zero == cursor

\* (uintptr_t)armel->cursor - (uintptr_t)armel->base
used_bytes == Wrap(cursor - base)

\* static inline size_t arl_used (Armel *armel)
arl_used == Read("arl_used", used_bytes)

\* (uintptr_t)armel->end - arl_align_up((uintptr_t)armel->cursor, alignment)
remaining_bytes == Wrap(end - arl_align_up(cursor, alignment))

\* static inline size_t arl_remaining (Armel *armel)
arl_remaining == Read("arl_remaining", remaining_bytes)

\* void arl_print_info (Armel *armel)
arl_print_info == Read("arl_print_info", NoRet)

\* the caller stores into armel.flags, as the tests do
set_flags(f) ==
    /\ state \in {"ready", "destroyed"}
    /\ flags' = f
    /\ op' = "set_flags" /\ arg' = f /\ ret' = NoRet
    /\ mark' = NoMark
    /\ UNCHANGED <<build, state, base, cursor, end, alignment, mask, made, sys,
                   mem, probe, sized, watch, first, held, wild, guard, step>>

\* the caller writes its data, non-zero bytes, into the block the last
\* allocation returned; a write outside mapped memory may kill the process
store ==
    /\ state = "ready"
    /\ op \in {"arl_alloc", "arl_alloc_zeroed"}
    /\ ret # NoRet /\ ret # NULL /\ arg > 0
    /\ LET block == Range(ret, arg) IN
        \/ /\ mem' = mem \cup Seen(block \cap Valid)
           /\ op' = "store" /\ arg' = arg /\ ret' = ret
           /\ UNCHANGED <<build, state, arena, made, sys, ghost>>
        \/ /\ ~(block \subseteq Valid)
           /\ Crash("store", arg)

Next ==
    \/ \E size \in Capacities \cup ScenarioCapacities, a \in Alignments,
          f \in FlagSet :
            arl_new_custom(size, a, f)
    \/ \E size \in Capacities \cup ScenarioCapacities : arl_new(size)
    \/ \E buffer \in Buffers, size \in BufferSizes, a \in Alignments, f \in FlagSet :
            arl_new_local(buffer, size, a, f)
    \/ arl_free
    \/ \E size \in AllocSizes : arl_alloc_inline(size)
    \/ \E size \in AllocSizes : arl_alloc_extern(size)
    \/ \E size \in AllocSizes : arl_alloc_zeroed(size)
    \/ arl_reset_inline
    \/ arl_reset_extern
    \/ arl_offset
    \/ \E offset \in RewindOffsets : arl_rewind_to(offset)
    \/ arl_used
    \/ arl_remaining
    \/ arl_print_info
    \/ set_flags(ARL_SOFTFAIL)
    \/ store

\* the runs of a caller that also asks for exactly the bytes arl_remaining
\* reports, and for a single byte
NextFit ==
    \/ Next
    \/ arl_alloc_inline(remaining_bytes)
    \/ arl_alloc_extern(remaining_bytes)
    \/ arl_alloc_inline(1)
    \/ arl_alloc_extern(1)

\* the runs of a caller that sizes its arena with arl_size and then fills it
\* with elements of sizeof(T) bytes
NextSize ==
    \/ Next
    \/ \E t \in ElementSizes, n \in Counts, a \in SizeAlignments :
            compute_size(t, n, a)
    \/ \E f \in FlagSet : arl_new_custom(sized.total, sized.a, f)
    \/ arl_new(sized.total)
    \/ arl_alloc_inline(sized.t)
    \/ arl_alloc_extern(sized.t)

\* one specification for each history a run can record
InitPlain == Init /\ probe = "none"
InitMark == Init /\ probe = "mark"
InitFirst == Init /\ probe = "first"
InitHeld == Init /\ probe = "held"
InitByte == Init /\ probe = "byte"
InitScenario == Init /\ probe = "scenario"
\* the runs of a caller that rounds a size with arl_align_up and then makes
\* an arena of the rounded size
NextAlign ==
    \/ Next
    \/ \E size \in AlignSizes, a \in SizeAlignments : align_up(size, a)
    \/ \E f \in FlagSet : arl_new_custom(sized.total, sized.a, f)
    \/ arl_new(sized.total)

InitFit == Init /\ probe = "fit"
InitSize == Init /\ probe = "size"
InitAlign == Init /\ probe = "align"

Spec == InitPlain /\ [][Next]_vars
SpecMark == InitMark /\ [][Next]_vars
SpecFirst == InitFirst /\ [][Next]_vars
SpecHeld == InitHeld /\ [][Next]_vars
SpecByte == InitByte /\ [][Next]_vars
SpecScenario == InitScenario /\ [][Next]_vars
SpecFit == InitFit /\ [][NextFit]_vars
SpecSize == InitSize /\ [][NextSize]_vars
SpecAlign == InitAlign /\ [][NextAlign]_vars

\* ---- properties ----------------------------------------------------------
SOFT == HasFlag(flags, ARL_SOFTFAIL)

\* the least multiple of a that is not below c, in unbounded arithmetic
round_up(c, a) == ((c + a - 1) \div a) * a

\* a request of size bytes does not fit after the cursor
DoesNotFit(size) == round_up(cursor, alignment) + size > end

\* C1: in every Ready state reached by allocations, checkpoints, resets and
\* in-range rewinds, soft-failed allocations included, base <= cursor <= end.
C1_CursorInsideRegion ==
    (state = "ready" /\ ~wild) => (base <= cursor /\ cursor <= end)

\* C2: on an arena that no out-of-range rewind has touched, every address a
\* successful arl_alloc returns is a multiple of the alignment, its block
\* [address, address + size) lies inside [base, end), and the block is
\* disjoint from every allocation made before it that no reset or rewind has
\* reclaimed.
C2_BlocksAlignedInsideDisjoint ==
    [][(state = "ready" /\ ~wild /\ state' = "ready" /\ op' = "arl_alloc"
            /\ ret' # NULL)
        => /\ ret' % alignment = 0
           /\ base <= ret' /\ ret' + arg' <= end
           /\ held # NoAlloc
                => Range(held[1], held[2]) \cap Range(ret', arg') = {}]_vars

\* C3: with SOFTFAIL set, on an arena that no out-of-range rewind has
\* touched, an arl_alloc whose request does not fit returns NULL and leaves
\* the arena as it was: cursor, used and remaining keep their values, so that
\* a later request that fits still succeeds.
C3_SoftFailLeavesArena ==
    [][(state = "ready" /\ ~wild /\ SOFT /\ op' = "arl_alloc" /\ DoesNotFit(arg'))
        => /\ ret' = NULL
           /\ state' = "ready"
           /\ UNCHANGED <<base, cursor, end, alignment, mask, flags>>]_vars

\* C4: without SOFTFAIL, on a Ready arena that no out-of-range rewind has
\* touched, an arl_alloc whose request does not fit terminates the process by
\* abort and returns nothing.
C4_OverflowAborts ==
    [][(state = "ready" /\ ~wild /\ ~SOFT /\ op' = "arl_alloc" /\ DoesNotFit(arg'))
        => (state' = "aborted" /\ ret' = NoRet)]_vars

\* C5 as claimed: on a destroyed arena arl_alloc follows the flags the arena
\* was created with: NULL when it was created with SOFTFAIL, abort otherwise.
C5_DestroyedFollowsCreationFlags ==
    [][(state = "destroyed" /\ op' = "arl_alloc")
        => IF HasFlag(made.flags, ARL_SOFTFAIL)
           THEN state' = "destroyed" /\ ret' = NULL
           ELSE state' = "aborted"]_vars

\* C5 as amended: arl_free clears the flags with the pointers, and arl_alloc
\* on the destroyed arena follows the flags stored in it at the call: it
\* aborts, unless the caller has stored SOFTFAIL again, and then it returns
\* NULL and changes nothing.  It never returns a pointer.
C5_DestroyedFollowsStoredFlags ==
    [][/\ (op' = "arl_free" /\ state' = "destroyed") => flags' = ARL_NOFLAG
       /\ (state = "destroyed" /\ op' = "arl_alloc")
            => IF SOFT
               THEN /\ state' = "destroyed" /\ ret' = NULL
                    /\ UNCHANGED <<base, cursor, end, alignment, mask, flags>>
               ELSE state' = "aborted" /\ ret' = NoRet]_vars

\* an arena created with SOFTFAIL, destroyed, and then aborting in arl_alloc
C5_Witness ==
    /\ state = "aborted" /\ op = "arl_alloc" /\ base = NULL
    /\ made.owned /\ HasFlag(made.flags, ARL_SOFTFAIL)
    /\ sys.releases = 1

\* C6 as claimed: arl_rewind_to with offset > end - base aborts in every
\* build and never moves the cursor; with offset <= end - base it sets the
\* cursor to base + offset and changes nothing else.
C6_RewindAlwaysChecked ==
    [][op' = "arl_rewind_to"
        => IF arg' > Wrap(end - base)
           THEN state' = "aborted" /\ cursor' = cursor
           ELSE /\ cursor' = Wrap(base + arg') /\ state' = state
                /\ UNCHANGED <<base, end, alignment, mask, flags, mem, sys>>]_vars

\* C6 as amended: the abort is there in the builds that do not define
\* ARL_NO_CHECKS, whatever the flags; a build that defines it moves the cursor
\* to base + offset for every offset.
C6_RewindCheckedUnlessDisabled ==
    [][op' = "arl_rewind_to"
        => IF arg' > Wrap(end - base) /\ ~noChecks
           THEN /\ state' = "aborted"
                /\ UNCHANGED <<base, cursor, end, alignment, mask, flags, mem, sys>>
           ELSE /\ cursor' = Wrap(base + arg') /\ state' = state
                /\ UNCHANGED <<base, end, alignment, mask, flags, mem, sys>>]_vars

\* an out-of-range rewind has aborted on an arena that has SOFTFAIL set
C6_Witness ==
    /\ state = "aborted" /\ op = "arl_rewind_to"
    /\ arg > Wrap(end - base) /\ SOFT /\ base # NULL

\* C7: no arena whose alignment is zero or not a power of two is ever Ready.
C7_BadAlignmentNeverReady ==
    state = "ready" => (alignment # 0 /\ And(alignment, Wrap(alignment - 1)) = 0)

\* C8: arl_free on a Ready owned arena releases the region [base, end) and
\* leaves base, cursor and end NULL.
C8_DestroyReleasesAndClears ==
    [][(state = "ready" /\ op' = "arl_free")
        => /\ state' = "destroyed"
           /\ base' = NULL /\ cursor' = NULL /\ end' = NULL
           /\ sys'.mapped = sys.mapped \ {<<base, Wrap(end - base)>>}
           /\ <<base, Wrap(end - base)>> \in sys.mapped
           /\ sys'.releases = sys.releases + 1]_vars

\* an owned arena that allocated and was then destroyed
C8_Witness ==
    /\ state = "destroyed" /\ op = "arl_free"
    /\ base = NULL /\ cursor = NULL /\ end = NULL
    /\ sys.mapped = {} /\ sys.acquires = 1 /\ sys.releases = 1

\* C9: after a reset, an arl_alloc of the size of the arena's first
\* allocation returns the address that first allocation returned.
C9_ResetReplaysFirst ==
    [][(state = "ready" /\ op = "arl_reset" /\ first # NoFirst /\ first # Spoiled
            /\ op' = "arl_alloc" /\ arg' = first[2])
        => /\ state' # "aborted"
           /\ state' = "ready" => ret' = first[1]]_vars

\* a reset and an allocation of the first size have happened, and the
\* allocation returned the first address
C9_Witness ==
    /\ state = "ready" /\ probe = "first" /\ first[3] = TRUE
    /\ op = "arl_alloc" /\ arg = first[2] /\ ret = first[1]
    /\ ret # NULL /\ arg > 0

\* C10: a checkpoint taken in a Ready state and rewound to at once leaves the
\* arena as it was; rewound to after any allocations, failed ones included,
\* it puts the cursor back where it was at the checkpoint.
C10_MarkRewindRoundTrip ==
    [][/\ (state = "ready" /\ op = "arl_offset" /\ op' = "arl_rewind_to" /\ arg' = ret)
            => (state' = "ready" /\ UNCHANGED <<base, cursor, end, alignment, mask, flags>>)
       /\ (state = "ready" /\ mark # NoMark /\ op' = "arl_rewind_to" /\ arg' = mark.off)
            => (state' = "ready" /\ cursor' = mark.cur)]_vars

\* C11: after a checkpoint, allocations and a rewind to the checkpoint, an
\* arl_alloc of a size that fits returns the address that the first
\* allocation after the checkpoint returned, whatever the two sizes are.
C11_RewindReusesAddress ==
    [][(state = "ready" /\ ~wild /\ op = "arl_rewind_to" /\ mark # NoMark
            /\ mark.nxt # NoRet /\ op' = "arl_alloc" /\ ~DoesNotFit(arg'))
        => /\ state' # "aborted"
           /\ state' = "ready" => ret' = mark.nxt]_vars

\* an allocation after a rewind to the checkpoint has returned the address
\* of the first allocation after the checkpoint, inside the region
C11_Witness ==
    /\ state = "ready" /\ probe = "mark" /\ mark.again
    /\ op = "arl_alloc" /\ ret = mark.nxt /\ ret # NULL /\ arg > 0
    /\ base <= ret /\ ret + arg <= end

\* C12: while the caller holds a checkpoint, no arl_alloc, arl_alloc_zeroed or
\* rewind to that checkpoint changes a byte below it: the data the caller
\* wrote into an allocation made before the checkpoint stays as written.
C12_BytesBelowCheckpointKept ==
    [][(state = "ready" /\ ~wild /\ guard # NoRet
            /\ \/ op' \in {"arl_alloc", "arl_alloc_zeroed"}
               \/ op' = "arl_rewind_to" /\ arg' = guard)
        => mem' = mem]_vars

\* C13: with ARL_ZEROS set, every byte of the block a successful arl_alloc
\* returns reads zero when it is returned, whatever the memory held before.
C13_ZerosBlockReadsZero ==
    [][(state = "ready" /\ HasFlag(flags, ARL_ZEROS) /\ op' = "arl_alloc"
            /\ state' = "ready" /\ ret' # NULL)
        => Range(ret', arg') \cap mem' = {}]_vars

\* an ARL_ZEROS arena over a buffer of non-zero bytes has returned a block
\* that holds the observed byte, and the byte reads zero
C13_Witness ==
    /\ state = "ready" /\ op = "arl_alloc" /\ HasFlag(flags, ARL_ZEROS)
    /\ made.ctor = "arl_new_local" /\ base <= ret /\ ret + arg <= end
    /\ watch # {} /\ watch \subseteq Range(ret, arg) /\ watch \cap mem = {}

\* C14: arl_reset puts the cursor at base and changes no other field, as a
\* rewind to offset 0 does, and with ARL_ZEROS set it leaves every byte of
\* [base, end) reading zero, whatever the caller had written there.
C14_ResetZeroesRegion ==
    [][(state = "ready" /\ ~wild /\ op' = "arl_reset")
        => /\ state' = "ready" /\ cursor' = rewind_cursor(0)
           /\ UNCHANGED <<base, end, alignment, mask, flags>>
           /\ HasFlag(flags, ARL_ZEROS)
                => Range(base, Wrap(end - base)) \cap mem' = {}]_vars

\* C15: right after a constructor has made an arena with ARL_ZEROS, owned or
\* over a buffer of the caller, every byte of [base, end) reads zero.
C15_ZerosRegionAtConstruction ==
    (/\ state = "ready" /\ HasFlag(flags, ARL_ZEROS)
     /\ op \in {"arl_new_custom", "arl_new", "arl_new_local"})
        => Range(base, Wrap(end - base)) \cap mem = {}

\* C16: arl_alloc_zeroed ends as arl_alloc ends from the same state: the same
\* failure (NULL under ARL_SOFTFAIL, abort otherwise) when the arena has no
\* base or the block does not fit, and otherwise the same address and the
\* same cursor, with every byte of the block reading zero (or the same wild
\* memset where ARL_ZEROS makes arl_alloc clear a block outside the region);
\* it never changes the flags, and a plain arl_alloc that follows on an arena
\* without ARL_ZEROS changes no byte.
C16_ZeroedMatchesAllocate ==
    [][/\ (state = "ready" /\ ~wild /\ op' = "arl_alloc_zeroed")
            => LET start == alloc_start(cursor)
                   stop == Wrap(start + arg')
               IN  /\ flags' = flags
                   /\ IF base = NULL \/ out_of_memory(stop)
                      THEN IF SOFT
                           THEN state' = state /\ ret' = NULL /\ cursor' = cursor
                           ELSE state' = "aborted"
                      ELSE \/ /\ state' = "ready" /\ ret' = start /\ cursor' = stop
                              /\ Range(ret', arg') \cap mem' = {}
                           \/ /\ state' = "crashed" /\ HasFlag(flags, ARL_ZEROS)
                              /\ ~(Range(start, arg') \subseteq Valid)
       /\ (state = "ready" /\ op = "arl_alloc_zeroed" /\ op' = "arl_alloc"
                /\ ~HasFlag(flags, ARL_ZEROS))
            => mem' = mem]_vars

\* C17: in every Ready state, whatever constructor made the arena, the
\* alignment is a nonzero power of two and end - base is a multiple of it.
C17_RegionMultipleOfAlignment ==
    state = "ready"
        => /\ alignment # 0 /\ And(alignment, Wrap(alignment - 1)) = 0
           /\ Wrap(end - base) % alignment = 0

\* the constructors
Constructors == {"arl_new_custom", "arl_new", "arl_new_local"}

\* an alignment a caller may validly ask for: a nonzero power of two
ValidAlignment(a) == a # 0 /\ And(a, Wrap(a - 1)) = 0

\* C18 as stated: for a valid alignment, right after construction arl_used
\* returns 0, the cursor lies between base and end, and arl_remaining returns
\* at most the capacity the caller asked for, also when that capacity is no
\* multiple of the alignment.
C18_RemainingWithinRequested ==
    [][(state = "ready" /\ op \in Constructors
            /\ ValidAlignment(made.alignment))
        => /\ base <= cursor /\ cursor <= end
           /\ op' = "arl_used" => ret' = 0
           /\ op' = "arl_remaining" => ret' <= made.capacity]_vars

\* C18, amended: for a valid alignment, right after construction arl_used
\* returns 0, the cursor lies between base and end, and arl_remaining returns
\* at most the requested capacity rounded up to a multiple of the alignment.
C18_RemainingWithinPadded ==
    [][(state = "ready" /\ op \in Constructors
            /\ ValidAlignment(made.alignment))
        => /\ base <= cursor /\ cursor <= end
           /\ op' = "arl_used" => ret' = 0
           /\ op' = "arl_remaining"
                => ret' <= round_up(made.capacity, made.alignment)]_vars

\* a fresh arena whose capacity is no multiple of the alignment reports more
\* remaining bytes than were asked for
C18_Witness ==
    /\ state = "ready" /\ op = "arl_remaining" /\ cursor = base
    /\ made.owned /\ ValidAlignment(made.alignment)
    /\ made.capacity % made.alignment # 0
    /\ ret > made.capacity
    /\ ret = round_up(made.capacity, made.alignment)

\* the arena of the scenario: capacity 32, alignment 8, no flags
InScenario ==
    /\ state = "ready" /\ made.capacity \in ScenarioCapacities
    /\ alignment = ARL_ALIGN /\ flags = ARL_NOFLAG

\* C19: on an arena of capacity 32, alignment 8 and no flags, the first
\* 4-byte allocation returns base, the second returns base + 8, and after the
\* two arl_used returns 16 and arl_remaining returns 16.
C19_TwoSmallAllocations ==
    [][InScenario
        => /\ (step = 1 /\ op' = "arl_alloc" /\ arg' = 4) => ret' = base
           /\ (step = 2 /\ op' = "arl_alloc" /\ arg' = 4) => ret' = base + 8
           /\ (step = 3 /\ op' = "arl_used") => ret' = 16
           /\ (step = 3 /\ op' = "arl_remaining") => ret' = 16]_vars

\* C20: in every Ready state of an owned arena whose region holds
\* C = end - base bytes, arl_used returns cursor - base, arl_remaining returns
\* end - round_up(cursor, alignment), and the two add up to at most C and to
\* at least C - alignment.
C20_UsedPlusRemaining ==
    [][(state = "ready" /\ made.owned /\ ~wild)
        => /\ op' = "arl_used" => ret' = cursor - base
           /\ op' = "arl_remaining" => ret' = end - round_up(cursor, alignment)
           /\ used_bytes + remaining_bytes <= end - base
           /\ end - base - alignment <= used_bytes + remaining_bytes]_vars

\* C21: in every Ready state an arl_alloc of exactly the bytes arl_remaining
\* reports succeeds with a non-null address and leaves arl_remaining at 0,
\* and an arl_alloc of more than arl_remaining reports fails: it returns
\* NULL under ARL_SOFTFAIL and ends the process otherwise, so that once
\* nothing remains every request of one byte or more fails.
C21_ExactFit ==
    [][(state = "ready" /\ ~wild /\ op' = "arl_alloc")
        => /\ arg' = remaining_bytes
                => /\ state' = "ready" /\ ret' # NULL
                   /\ Wrap(end' - arl_align_up(cursor', alignment')) = 0
           /\ arg' > remaining_bytes
                => IF SOFT THEN state' = "ready" /\ ret' = NULL
                           ELSE state' = "aborted"]_vars

\* C22: an arl_alloc of zero bytes on a Ready arena succeeds, also when the
\* cursor is at end: it returns the non-null address round_up(cursor,
\* alignment), leaves the cursor at exactly that address, and changes no
\* byte of memory, ARL_ZEROS or not.
C22_ZeroSizeAllocation ==
    [][(state = "ready" /\ ~wild /\ op' = "arl_alloc" /\ arg' = 0)
        => /\ state' = "ready"
           /\ ret' # NULL /\ ret' = round_up(cursor, alignment)
           /\ cursor' = ret'
           /\ mem' = mem]_vars

\* the operations that only read the arena
Reads == {"arl_offset", "arl_used", "arl_remaining", "arl_print_info"}

\* C23: arl_offset, arl_used, arl_remaining and arl_print_info are pure
\* reads: on a Ready or a Destroyed arena they change no field of the arena
\* and no byte of memory, and arl_offset returns cursor - base, computed on
\* machine words.
C23_ReadsArePure ==
    [][(state \in {"ready", "destroyed"} /\ op' \in Reads)
        => /\ state' = state
           /\ UNCHANGED <<base, cursor, end, alignment, mask, flags, mem, sys>>
           /\ op' = "arl_offset" => ret' = Wrap(cursor - base)]_vars

\* a checkpoint has been read off an arena that holds a block with the
\* caller's data in it
C23_Witness ==
    /\ state = "ready" /\ op = "arl_offset"
    /\ base < cursor /\ cursor <= end /\ ret = cursor - base
    /\ watch # {} /\ watch \subseteq mem

\* C24: for a power-of-two ALIGN, arl_size(T, N, ALIGN) is
\* round_up(sizeof(T), ALIGN) * N, a multiple of ALIGN and at least
\* sizeof(T) * N; and an owned arena made with that capacity and alignment
\* accepts exactly N successive allocations of sizeof(T) bytes: the first N
\* succeed and the next one fails.
C24_SizeMacro ==
    [][/\ op' = "arl_size"
            => /\ ret' = round_up(sized'.t, sized'.a) * sized'.n
               /\ ret' % sized'.a = 0
               /\ ret' >= sized'.t * sized'.n
       /\ (state = "ready" /\ made.owned /\ sized # NoSize
                /\ op' = "arl_alloc" /\ arg' = sized.t)
            => /\ step \in 1 .. sized.n
                    => state' = "ready" /\ ret' # NULL
               /\ step = sized.n + 1
                    => IF SOFT THEN state' = "ready" /\ ret' = NULL
                               ELSE state' = "aborted"]_vars

\* C25: whatever constructor made the arena, a successful arl_alloc returns
\* the least multiple of the alignment that is not below the cursor it
\* found, so that the second of two consecutive allocations lies at
\* round_up(first + size of first, alignment).
C25_AllocatesAtAlignedCursor ==
    [][(state = "ready" /\ ~wild /\ op' = "arl_alloc" /\ state' = "ready"
            /\ ret' # NULL)
        => /\ ret' = round_up(cursor, alignment)
           /\ (op = "arl_alloc" /\ ret # NULL)
                => ret' = round_up(ret + arg, alignment)]_vars

\* C26: a successful arl_alloc leaves the cursor at exactly start + size,
\* with no padding after the block, so that from an aligned cursor the
\* cursor advances by exactly size; and no arl_alloc, successful or failed,
\* moves the cursor backwards.
C26_CursorAdvancesBySize ==
    [][(state = "ready" /\ ~wild /\ op' = "arl_alloc")
        => /\ cursor' >= cursor
           /\ (state' = "ready" /\ ret' # NULL)
                => /\ cursor' = ret' + arg'
                   /\ cursor % alignment = 0 => cursor' = cursor + arg']_vars

\* C27: for every request size of the machine word, an arl_alloc whose
\* block would extend past end does not succeed, also when start + size
\* wraps modulo 2^WordBits to a value <= end; a successful arl_alloc
\* returns a block that lies within [base, end).
C27_OverflowIsExhaustion ==
    [][(state = "ready" /\ ~wild /\ op' = "arl_alloc")
        => /\ round_up(cursor, alignment) + arg' > end
                => ~(state' = "ready" /\ ret' # NULL)
           /\ (state' = "ready" /\ ret' # NULL)
                => base <= ret' /\ ret' + arg' <= end]_vars

\* the operations that move the cursor or read it
CursorOps ==
    {"arl_alloc", "arl_alloc_zeroed", "arl_reset", "arl_rewind_to", "arl_offset"}

\* C28: on a ready arena arl_alloc, arl_alloc_zeroed, arl_reset,
\* arl_rewind_to and arl_offset change no field other than cursor, whether
\* they succeed or fail: base, end, alignment, mask and flags are left as
\* they were, and the alignment is the one given at construction.
C28_OnlyCursorMoves ==
    [][(state = "ready" /\ op' \in CursorOps)
        => /\ UNCHANGED <<base, end, alignment, mask, flags>>
           /\ alignment' = made.alignment]_vars

\* a soft-failed allocation on an arena that has handed out a block
C28_Witness ==
    /\ state = "ready" /\ op = "arl_alloc" /\ ret = NULL /\ SOFT
    /\ base # NULL /\ base < cursor /\ cursor <= end
    /\ alignment = made.alignment

\* C29: a destroyed arena stays destroyed: arl_alloc, arl_alloc_zeroed,
\* arl_reset, arl_rewind_to and arl_offset leave it destroyed (or abort),
\* an allocation on it never returns a non-null pointer, none of these
\* operations writes memory or touches the page source, and only arl_free
\* on a ready owned arena makes an arena destroyed.
C29_DestroyedIsTerminal ==
    [][/\ state = "destroyed" => state' \in {"destroyed", "aborted"}
       /\ (state = "destroyed" /\ op' \in CursorOps)
            => /\ op' \in {"arl_alloc", "arl_alloc_zeroed"}
                    => ret' \in {NULL, NoRet}
               /\ base' = NULL
               /\ mem' = mem /\ sys' = sys
       /\ (state # "destroyed" /\ state' = "destroyed")
            => state = "ready" /\ made.owned /\ op' = "arl_free"]_vars

\* an allocation on a destroyed arena returned NULL and the byte the
\* caller had written before the destroy is as it was
C29_Witness ==
    /\ state = "destroyed" /\ op = "arl_alloc" /\ ret = NULL
    /\ made.owned /\ sys.releases = 1
    /\ watch # {} /\ watch \subseteq mem

\* the constructors that acquire their region from the page source
OwnedConstructors == {"arl_new_custom", "arl_new"}

\* the region the arena descriptor spans
Region == <<base, Wrap(end - base)>>

\* C30: the page source is used only at the two ends of an owned arena's
\* life: a successful owned construction acquires exactly one region, the
\* one [base, end) spans; arl_free on a ready arena succeeds and releases,
\* once, exactly that region, of the requested capacity rounded up to the
\* alignment, whatever was allocated, reset or rewound in between; no
\* region is released that was not acquired; and no other operation, and
\* no operation on a borrowed arena, acquires or releases.
C30_PageSourceAtEnds ==
    [][/\ (op' \in OwnedConstructors /\ state' = "ready")
            => /\ sys'.acquires = sys.acquires + 1
               /\ sys'.releases = sys.releases
               /\ sys'.mapped = sys.mapped \cup {Region'}
       /\ (state = "ready" /\ op' = "arl_free")
            => /\ state' = "destroyed"
               /\ ValidAlignment(made.alignment)
                    => Region[2] = round_up(made.capacity, made.alignment)
       /\ (op' = "arl_free" /\ state' = "destroyed")
            => /\ Region \in sys.mapped
               /\ sys'.mapped = sys.mapped \ {Region}
               /\ sys'.releases = sys.releases + 1
               /\ sys'.acquires = sys.acquires
       /\ (op' \notin OwnedConstructors \cup {"arl_free"} \/ ~made'.owned)
            => sys' = sys]_vars

\* an owned arena whose capacity was rounded up has been destroyed: one
\* acquire, one release, nothing left mapped
C30_Witness ==
    /\ state = "destroyed" /\ op = "arl_free" /\ made.owned
    /\ made.capacity = MaxCap /\ made.alignment = ARL_ALIGN
    /\ sys = [mapped |-> {}, acquires |-> 1, releases |-> 1]

\* C31: an owned constructor given a valid alignment makes a region whose
\* length end - base is the least multiple of the alignment >= the
\* capacity, with the cursor at base; and arl_align_up(size, align) returns
\* that least multiple whenever it fits the machine word, and never a value
\* smaller than size.
C31_RoundsCapacityUp ==
    [][/\ (op' \in OwnedConstructors /\ state' = "ready"
                /\ ValidAlignment(made'.alignment))
            => /\ end' - base' = round_up(made'.capacity, made'.alignment)
               /\ made'.capacity <= end' - base'
               /\ end' - base' < made'.capacity + made'.alignment
               /\ cursor' = base'
       /\ op' = "arl_align_up"
            => /\ round_up(arg', sized'.a) < Word
                    => ret' = round_up(arg', sized'.a)
               /\ ret' >= arg']_vars

\* C32: arl_remaining never wraps: in every ready state of an arena, owned
\* or borrowed, that no unchecked rewind has left outside its region, the
\* cursor rounded up to the alignment is <= end, so that end minus the
\* rounded cursor is non-negative and no larger than end - base.
C32_RemainingNeverWraps ==
    (state = "ready" /\ ~wild)
        => /\ round_up(cursor, alignment) <= end
           /\ end - round_up(cursor, alignment) <= end - base

====
